---- MODULE Spec2Model ----
(***************************************************************************)
(* Model of corepack's sources/specUtils.ts: the resolver (loadSpec,       *)
(* parsePackageJSON, parseSpec) and the persistence writer                 *)
(* (setLocalPackageManager).                                               *)
(*                                                                         *)
(* Strings are strings: indexOf / lastIndexOf / slice / startsWith work on *)
(* character positions, paths are the path strings of the code.  A call of *)
(* loadSpec or setLocalPackageManager is a sequence of steps, one for each *)
(* request its file operations make; the steps of calls in flight           *)
(* interleave.                                                             *)
(***************************************************************************)
EXTENDS Naturals, Integers, Sequences, FiniteSets, Bags, TLC

VARIABLES fs, full, env, cwd, limit, budget, started, calls,
          op, info, result, before, after, written, alone

vars == <<fs, full, env, cwd, limit, budget, started, calls,
          op, info, result, before, after, written, alone>>

\* ------------------------------------------------------------- strings

\* JavaScript's undefined, as a value that is no string of the program.
Undefined == "<undefined>"

\* JavaScript truthiness of an optional string: neither undefined nor "".
Truthy(s) == s # Undefined /\ s # ""

\* The 0-based positions from lo to hi at which pat occurs in s.
Occurrences(s, pat, lo, hi) ==
  {i \in lo..hi : i >= 0 /\ i + Len(pat) <= Len(s)
                   /\ SubSeq(s, i + 1, i + Len(pat)) = pat}

\* String.prototype.indexOf(pat, from), 0-based, -1 when absent.
IndexOfFrom(s, pat, from) ==
  LET at == Occurrences(s, pat, from, Len(s)) IN
  IF at = {} THEN -1 ELSE CHOOSE i \in at : \A j \in at : i <= j

IndexOf(s, pat) == IndexOfFrom(s, pat, 0)

\* String.prototype.lastIndexOf(pat), 0-based, -1 when absent.
LastIndexOf(s, pat) ==
  LET at == Occurrences(s, pat, 0, Len(s)) IN
  IF at = {} THEN -1 ELSE CHOOSE i \in at : \A j \in at : j <= i

\* String.prototype.slice(from, to) and slice(from), 0-based, to exclusive.
Slice(s, from, to) == SubSeq(s, from + 1, to)
SliceFrom(s, from) == SubSeq(s, from + 1, Len(s))

StartsWith(s, pat) == Len(s) >= Len(pat) /\ SubSeq(s, 1, Len(pat)) = pat

\* String.prototype.toUpperCase, on ASCII.
LowerCaseLetters == "abcdefghijklmnopqrstuvwxyz"
UpperCaseLetters == "ABCDEFGHIJKLMNOPQRSTUVWXYZ"

UpperChar(c) ==
  LET i == IndexOf(LowerCaseLetters, c) IN
  IF i = -1 THEN c ELSE Slice(UpperCaseLetters, i, i + 1)

RECURSIVE ToUpperCase(_)
ToUpperCase(s) ==
  IF s = "" THEN ""
  ELSE UpperChar(Slice(s, 0, 1)) \o ToUpperCase(SliceFrom(s, 1))

\* String.prototype.split(sep), for a separator of one character.
RECURSIVE Split(_, _)
Split(s, sep) ==
  LET i == IndexOf(s, sep) IN
  IF i = -1 THEN <<s>>
  ELSE <<Slice(s, 0, i)>> \o Split(SliceFrom(s, i + 1), sep)

\* The string without the occurrences of a character.
RECURSIVE Without(_, _)
Without(s, c) ==
  LET i == IndexOf(s, c) IN
  IF i = -1 THEN s
  ELSE Slice(s, 0, i) \o Without(SliceFrom(s, i + 1), c)

\* --------------------------------------------------------------- paths

Sep == "/"
Root == "/"

\* path.dirname: the root is its own parent.
Dirname(p) ==
  LET i == LastIndexOf(p, Sep) IN
  IF i <= 0 THEN Root ELSE Slice(p, 0, i)

\* path.join(dir, name)
Join(dir, name) == IF dir = Root THEN Sep \o name ELSE dir \o Sep \o name

\* A path segment that begins with "@" (a scope directory).
IsScope(seg) == StartsWith(seg, "@")

\* nodeModulesRegExp.test(p):
\* /[\\/]node_modules[\\/](@[^\\/]*[\\/])?([^@\\/][^\\/]*)$/
NodeModulesRegExpTest(p) ==
  LET segs == Split(p, Sep)
      n == Len(segs)
  IN
  /\ n >= 3
  /\ segs[n] # "" /\ ~IsScope(segs[n])
  /\ \/ segs[n - 1] = "node_modules"
     \/ /\ n >= 4
        /\ IsScope(segs[n - 1])
        /\ segs[n - 2] = "node_modules"

\* -------------------------------------------------------------- semver

\* The version cores of the layouts.
CoreVersions == {"2.1.0", "2.4.3", "3.0.0"}

\* Build metadata of the layouts ("+sha512....").
BuildSuffixes == {"+sha512.8dd9"}

\* major.minor.patch of a version string: what precedes "+".
CoreOf(v) == IF IndexOf(v, "+") = -1 THEN v ELSE Slice(v, 0, IndexOf(v, "+"))
BuildOf(v) == IF IndexOf(v, "+") = -1 THEN "" ELSE SliceFrom(v, IndexOf(v, "+"))

MajorOf(core) == Slice(core, 0, IndexOf(core, "."))

\* semver/functions/valid: an exact version, with or without build metadata.
SemverValid(v) ==
  /\ CoreOf(v) \in CoreVersions
  /\ BuildOf(v) \in BuildSuffixes \cup {""}

\* semver/functions/satisfies(version, range): false for an invalid version;
\* build metadata is ignored; an exact version as a range means equality.
SemverSatisfies(v, range) ==
  /\ SemverValid(v)
  /\ CASE range = "*" -> TRUE
       [] range \in {"2.x", "3.x"} -> MajorOf(CoreOf(v)) = MajorOf(range)
       [] SemverValid(range) -> CoreOf(v) = CoreOf(range)
       [] OTHER -> FALSE

\* URL.canParse(range)
URLTokens == {"https://example.com/pm.tgz"}
URLCanParse(s) == s \in URLTokens

\* types.ts: isSupportedPackageManager
SupportedPackageManagers == {"npm", "pnpm", "yarn"}
IsSupportedPackageManager(name) == name \in SupportedPackageManagers

\* --------------------------------------------------------- environment

\* An environment is a set of bindings with distinct keys.
Binding(k, v) == [key |-> k, value |-> v]

EnvGet(e, k) ==
  IF \E b \in e : b.key = k THEN (CHOOSE b \in e : b.key = k).value
  ELSE Undefined

\* {...a, ...b}: the bindings of b win on key collision.
EnvMerge(a, b) == b \cup {x \in a : \A y \in b : y.key # x.key}

NL == "\n"
CR == "\r"
Eq == "="

\* The lines util.parseEnv cuts a text into: every "\r" is dropped, then
\* the text is cut at "\n".
SplitLines(text) == Split(Without(text, CR), NL)

LineKey(line) == Slice(line, 0, IndexOf(line, Eq))
LineValue(line) == SliceFrom(line, IndexOf(line, Eq) + 1)
IsAssignment(line) == IndexOf(line, Eq) > 0

\* util.parseEnv: KEY=value lines, blank lines skipped, the last
\* assignment of a key wins.
ParseEnv(text) ==
  LET lines == SplitLines(text)
      idx == {i \in 1..Len(lines) : IsAssignment(lines[i])}
      last == {i \in idx : \A j \in idx : LineKey(lines[j]) = LineKey(lines[i]) => j <= i}
  IN {Binding(LineKey(lines[i]), LineValue(lines[i])) : i \in last}

\* ------------------------------------------------------------ parseSpec

Ok(v) == [ok |-> TRUE, value |-> v, error |-> "none"]
Err(e) == [ok |-> FALSE, value |-> Undefined, error |-> e]

Descriptor(name, range) == [name |-> name, range |-> range]
NoDescriptor == Descriptor(Undefined, Undefined)

At == "@"

\* parseSpec(raw, source, {enforceExactVersion}); penv is process.env.
ParseSpec(raw, enforceExactVersion, penv) ==
  IF raw = Undefined THEN Err("InvalidSpecType")
  ELSE
    LET atIndex == IndexOf(raw, At) IN
    IF atIndex = -1 \/ atIndex = Len(raw) - 1 THEN
      IF enforceExactVersion THEN Err("MissingVersion")
      ELSE
        LET name == IF atIndex = -1 THEN raw ELSE Slice(raw, 0, Len(raw) - 1) IN
        IF ~IsSupportedPackageManager(name) THEN Err("UnsupportedManager")
        ELSE Ok(Descriptor(name, "*"))
    ELSE
      LET name == Slice(raw, 0, atIndex)
          range == SliceFrom(raw, atIndex + 1)
      IN
      IF ~URLCanParse(range) THEN
        IF enforceExactVersion /\ ~SemverValid(range) THEN Err("InvalidVersion")
        ELSE IF ~IsSupportedPackageManager(name) THEN Err("UnsupportedManager")
        ELSE Ok(Descriptor(name, range))
      ELSE IF /\ IsSupportedPackageManager(name)
              /\ EnvGet(penv, "COREPACK_ENABLE_UNSAFE_CUSTOM_URLS") # "1"
           THEN Err("UnsafeCustomURL")
      ELSE Ok(Descriptor(name, range))

\* ----------------------------------------------------- parsePackageJSON

\* devEngines.packageManager of a manifest: absent, an array, or an object
\* {name, version}.
NoDevEngines == [kind |-> "absent"]
DevEnginesArray == [kind |-> "array"]
DevEngines(name, version) == [kind |-> "object", name |-> name, version |-> version]

\* The parsed manifest: the two fields the code reads.
Data(pm, dev) == [packageManager |-> pm, devEngines |-> dev]

LocalEnvKey(name) == "COREPACK_DEV_ENGINES_" \o ToUpperCase(name)

\* The override value taken without the check of line 83.
FromLocalEnvUnchecked(packageManager, localEnvVersion) ==
  Ok(packageManager.name \o At \o localEnvVersion)

\* Lines 83-87 and 102: the override value is checked against the
\* constraint and becomes the version.
FromLocalEnv(packageManager, localEnvVersion) ==
  IF ~SemverSatisfies(localEnvVersion, packageManager.version)
  THEN Err("OverrideConstraintMismatch")
  ELSE Ok(packageManager.name \o At \o localEnvVersion)

\* The checks of lines 91-95, falling through to line 102 instead of
\* returning the field.
FromLegacyFieldRebuilt(packageManager, pm) ==
  IF ~StartsWith(pm, packageManager.name \o At)
  THEN Err("DeclarationNameMismatch")
  ELSE IF ~SemverSatisfies(SliceFrom(pm, Len(packageManager.name) + 1), packageManager.version)
  THEN Err("DeclarationVersionMismatch")
  ELSE Ok(packageManager.name \o At \o packageManager.version)

\* Lines 91-97: the "packageManager" field is checked against devEngines
\* and returned as it is.
FromLegacyField(packageManager, pm) ==
  IF ~StartsWith(pm, packageManager.name \o At)
  THEN Err("DeclarationNameMismatch")
  ELSE IF ~SemverSatisfies(SliceFrom(pm, Len(packageManager.name) + 1), packageManager.version)
  THEN Err("DeclarationVersionMismatch")
  ELSE Ok(pm)

\* parsePackageJSON(packageJSONContent, localEnv): the raw spec string,
\* undefined, or an error.
ParsePackageJSON(data, localEnv) ==
  IF data.devEngines.kind # "absent" THEN
    LET packageManager == data.devEngines IN
    IF packageManager.kind = "array" THEN Err("MultiplePackageManagersUnsupported")
    ELSE IF ~Truthy(packageManager.version) THEN Err("MissingVersionConstraint")
    ELSE
      LET localEnvKey == LocalEnvKey(packageManager.name)
          localEnvVersion == EnvGet(localEnv, localEnvKey)
          pm == data.packageManager
      IN
      IF Truthy(localEnvVersion) THEN FromLocalEnv(packageManager, localEnvVersion)
      ELSE IF Truthy(pm) THEN FromLegacyField(packageManager, pm)
      ELSE Ok(packageManager.name \o At \o packageManager.version)
  ELSE Ok(data.packageManager)

\* --------------------------------------------------------- file system

\* nodeUtils: the dominant line ending of a text ("\n" when it has none).
RECURSIVE CountOf(_, _)
CountOf(text, pat) ==
  LET i == IndexOf(text, pat) IN
  IF i = -1 THEN 0 ELSE 1 + CountOf(SliceFrom(text, i + Len(pat)), pat)

CRLF == "\r\n"

GetEolFromFile(content) ==
  LET crlf == CountOf(content, CRLF)
      lf == CountOf(content, NL) - crlf
  IN IF crlf > lf THEN CRLF ELSE NL

\* newContent.replace(/\r?\n/g, eol)
RECURSIVE ReplaceEol(_, _)
ReplaceEol(text, eol) ==
  LET i == IndexOf(text, NL) IN
  IF i = -1 THEN text
  ELSE (IF i > 0 /\ Slice(text, i - 1, i) = CR THEN Slice(text, 0, i - 1)
        ELSE Slice(text, 0, i))
       \o eol \o ReplaceEol(SliceFrom(text, i + 1), eol)

\* nodeUtils.normalizeLineEndings(originalContent, newContent)
NormalizeLineEndings(originalContent, newContent) ==
  ReplaceEol(newContent, GetEolFromFile(originalContent))

\* JSON.stringify(data, null, 2) of a manifest's data.
Quote(s) == "\"" \o s \o "\""

DevEnginesText(dev) ==
  "  \"devEngines\": {\n    \"packageManager\": "
    \o (IF dev.kind = "array" THEN "[]"
        ELSE "{\n      \"name\": " \o Quote(dev.name)
               \o (IF dev.version = Undefined THEN ""
                   ELSE ",\n      \"version\": " \o Quote(dev.version))
               \o "\n    }")
    \o "\n  }"

Stringify(data) ==
  LET dev == IF data.devEngines.kind = "absent" THEN ""
             ELSE DevEnginesText(data.devEngines)
      pm == IF data.packageManager = Undefined THEN ""
            ELSE "  \"packageManager\": " \o Quote(data.packageManager)
  IN
  IF dev = "" /\ pm = "" THEN "{}"
  ELSE "{\n" \o dev \o (IF dev # "" /\ pm # "" THEN ",\n" ELSE "") \o pm \o "\n}"

\* The disk is a function from the paths of the files that exist to their
\* contents.  The override file's content is its text.  A manifest's
\* content is its text with what JSON.parse makes of it: valid is "object"
\* (a JSON object), "array" (a JSON array), "scalar" (a JSON string, number,
\* boolean or null), "invalid" (no JSON) or "empty" (the empty text); data
\* holds the properties the code reads, an array has none.  head is the
\* JSON value the text begins with: its kind, its data and the number of
\* characters that spell it.
NoData == Data(Undefined, NoDevEngines)

Leading(valid, data, len) == [valid |-> valid, data |-> data, len |-> len]
NoLeading == Leading("invalid", NoData, 0)

\* JSON white space.
Blank(s) == \A i \in 1..Len(s) : SubSeq(s, i, i) \in {" ", "\t", NL, CR}

\* JSON.parse of a text that begins with head: the value of head when
\* nothing but white space follows it, no value otherwise.
Content(text, head) ==
  LET valid == IF text = "" THEN "empty"
               ELSE IF head.valid # "invalid" /\ Len(text) >= head.len
                       /\ Blank(SubSeq(text, head.len + 1, Len(text)))
               THEN head.valid
               ELSE "invalid"
  IN [valid |-> valid,
      data |-> IF valid \in {"object", "array", "scalar"} THEN head.data ELSE NoData,
      text |-> text, head |-> head]

\* A manifest: the text JSON.stringify gives for an object, followed by a
\* newline or not, with its content.
Manifest(valid, data, nl) ==
  LET text == CASE valid = "object" -> Stringify(data)
                [] valid = "array" -> "[]"
                [] valid = "scalar" -> "1"
                [] valid = "invalid" -> "{"
                [] valid = "empty" -> ""
  IN Content(text \o (IF nl THEN NL ELSE ""),
             IF valid \in {"object", "array", "scalar"}
             THEN Leading(valid, data, Len(text)) ELSE NoLeading)

\* The empty text, where a manifest is expected.
EmptyContent == Manifest("empty", NoData, FALSE)

\* The first n characters of a manifest's text.
Prefix(content, n) ==
  IF n >= Len(content.text) THEN content
  ELSE Content(SubSeq(content.text, 1, n),
               IF n >= content.head.len THEN content.head ELSE NoLeading)

\* Line 184: typeof data === "object" && data !== null, which holds of a
\* JSON object and of a JSON array.
IsObjectValue(content) == content.valid \in {"object", "array"}

Exists(f, path) == path \in DOMAIN f

ManifestName == "package.json"
EnvFileName == ".corepack.env"

\* The new content of a file, at the path or instead of the one there.
WriteFile(f, path, content) ==
  [q \in DOMAIN f \cup {path} |-> IF q = path THEN content ELSE f[q]]

\* What is left of a text after another one is written at its beginning;
\* what a text holds past the end of another one.
RestAfter(old, new) ==
  IF Len(old) > Len(new) THEN SubSeq(old, Len(new) + 1, Len(old)) ELSE ""

\* A manifest's text written at the beginning of another one.
Overlay(new, old) == Content(new.text \o RestAfter(old.text, new.text), new.head)

\* The bytes a readFile has read or a writeFile is to write: a text, and
\* for a manifest the JSON value the text begins with.
Bytes(text, head) == [text |-> text, head |-> head]
NoBytes == Bytes("", NoLeading)

\* ------------------------------------------------- the steps of a call

Selection(data, manifestPath, localEnv, fromFile, envFilePath) ==
  [some |-> TRUE, data |-> data, manifestPath |-> manifestPath,
   localEnv |-> localEnv, fromFile |-> fromFile, envFilePath |-> envFilePath]

\* selection = null
NullSelection ==
  [some |-> FALSE, data |-> NoData, manifestPath |-> "",
   localEnv |-> {}, fromFile |-> FALSE, envFilePath |-> ""]

\* LoadSpecResult, with a fourth variant for a thrown error.
Outcome(type, target, spec, envFilePath, error) ==
  [type |-> type, target |-> target, spec |-> spec,
   envFilePath |-> envFilePath, error |-> error]

NoProject(target) == Outcome("NoProject", target, NoDescriptor, Undefined, "none")
NoSpec(target) == Outcome("NoSpec", target, NoDescriptor, Undefined, "none")
Found(target, spec, envFilePath) == Outcome("Found", target, spec, envFilePath, "none")
Thrown(e) == Outcome("Error", Undefined, NoDescriptor, Undefined, e)
NoOutcome == Outcome("None", Undefined, NoDescriptor, Undefined, "none")

\* PreparedPackageManagerInfo.locator
Locator(name, reference) == [name |-> name, reference |-> reference]
NoLocator == Locator(Undefined, Undefined)

\* A call in flight: kind is "resolve" (loadSpec) or "persist"
\* (setLocalPackageManager); pc is the file operation the call awaits:
\*   "manifest"  readFile(manifestPath) of line 173, for currCwd
\*   "env"       readFile(envFilePath) of line 191, for currCwd
\*   "content"   readFile of line 112
\*   "open"      writeFile of line 138, opening (and truncating) the file
\*   "write"     writeFile of line 138, writing newContent
\*   "close"     writeFile of line 138, closing the file
\*   "done"      returned or thrown.
\* A readFile is the requests "open", "fstat", "read", for a file whose
\* size fstat gave as 0 "more", and "close"; req is the one the call waits
\* for, size what fstat gave, got what has been read.  error is the error
\* the call has thrown, or the one its writeFile throws once the file is
\* closed.  disk is the disk when the call started, wrote the paths it has
\* written, alone whether no other call was in flight while it ran.
NoCall ==
  [kind |-> "none", pc |-> "idle", req |-> "none", size |-> 0, got |-> NoBytes,
   locator |-> NoLocator, initialCwd |-> "",
   currCwd |-> "", nextCwd |-> "", selection |-> NullSelection, data |-> NoData,
   lookup |-> NoOutcome, path |-> "", previousPackageManager |-> Undefined,
   newContent |-> NoBytes, error |-> "none", disk |-> <<>>, wrote |-> {}, alone |-> TRUE]

\* The call returns or throws: nothing of its locals is kept.
Return(c, lookup, previous) ==
  [NoCall EXCEPT !.kind = c.kind, !.pc = "done", !.locator = c.locator,
                 !.initialCwd = c.initialCwd, !.lookup = lookup,
                 !.previousPackageManager = previous,
                 !.disk = c.disk, !.wrote = c.wrote, !.alone = c.alone]

Throw(c, e) ==
  [Return(c, NoOutcome, Undefined) EXCEPT !.error = e]

\* The walk stopping at the first manifest it reads.
StopAtFirstManifest(selection) == ~selection.some

\* Line 162: the walk goes on while no manifest with a "packageManager"
\* field has been selected.
KeepWalking(selection) ==
  ~selection.some \/ ~Truthy(selection.data.packageManager)

\* Lines 202-216: the result of loadSpec once the walk is over.
LoadSpecResult(selection, initialCwd, penv) ==
  IF ~selection.some THEN NoProject(Join(initialCwd, ManifestName))
  ELSE
    LET rawPmSpec == ParsePackageJSON(selection.data, selection.localEnv) IN
    IF ~rawPmSpec.ok THEN Thrown(rawPmSpec.error)
    ELSE IF rawPmSpec.value = Undefined THEN NoSpec(selection.manifestPath)
    ELSE
      LET spec == ParseSpec(rawPmSpec.value, TRUE, penv) IN
      IF ~spec.ok THEN Thrown(spec.error)
      ELSE Found(selection.manifestPath, spec.value,
                 IF selection.fromFile THEN selection.envFilePath ELSE Undefined)

\* nodeUtils.readPackageJson(content).data: JSON.parse of the text, the
\* empty text reading as {}.
ReadPackageJson(content) ==
  IF content.valid = "invalid" THEN Err("SyntaxError")
  ELSE IF content.valid = "empty" THEN Ok(NoData)
  ELSE Ok(content.data)

Unknown == "unknown"

\* Lines 117-127: the patch of the override file's text.
PatchEnvFile(content, envKey, reference) ==
  LET index == LastIndexOf(content, NL \o envKey \o Eq) + 1 IN
  IF index = 0 /\ ~StartsWith(content, envKey \o Eq)
  THEN Err("InternalAssertion")
  ELSE
    LET lineEndIndex == IndexOfFrom(content, NL, index)
        previousPackageManager ==
          Slice(content, index, IF lineEndIndex = -1 THEN Len(content) ELSE lineEndIndex)
        newContent ==
          Slice(content, 0, index) \o NL \o envKey \o Eq \o reference \o NL
            \o (IF lineEndIndex = -1 THEN "" ELSE SliceFrom(content, lineEndIndex))
    IN Ok([previousPackageManager |-> previousPackageManager, newContent |-> newContent])

\* Lines 129-134: the manifest's "packageManager" field is set and the data
\* serialised.  Setting a property of a JSON scalar throws; JSON.stringify
\* of an array leaves out the property set on it, so an array is written
\* back as the array it was.
PatchManifest(content, locator) ==
  LET read == ReadPackageJson(content) IN
  IF ~read.ok THEN read
  ELSE IF content.valid = "scalar" THEN Err("TypeError")
  ELSE
    LET data == read.value
        previousPackageManager ==
          IF data.packageManager # Undefined THEN data.packageManager ELSE Unknown
        newData == [data EXCEPT !.packageManager = locator.name \o At \o locator.reference]
    IN Ok([previousPackageManager |-> previousPackageManager,
           newContent |-> IF content.valid = "array" THEN Manifest("array", data, TRUE)
                          ELSE Manifest("object", newData, TRUE)])

\* Line 137 for a manifest: the new text, which ends with a newline, takes
\* the line ending of the text read.
NormalizeManifest(content, newContent) ==
  LET eol == GetEolFromFile(content.text)
      text == NormalizeLineEndings(content.text, newContent.text)
  IN Content(text, [newContent.head EXCEPT !.len = Len(text) - Len(eol)])

\* The call writes the override file (line 117).
WritesEnvFile(c) == Truthy(c.lookup.envFilePath)

\* Lines 115-138, from the content read to the call of writeFile.
Prepare(c, content) ==
  LET patch == IF WritesEnvFile(c)
               THEN PatchEnvFile(content, LocalEnvKey(c.lookup.spec.name), c.locator.reference)
               ELSE PatchManifest(content, c.locator)
  IN
  IF ~patch.ok THEN Throw(c, patch.error)
  ELSE
    [c EXCEPT !.pc = "open",
              !.previousPackageManager = patch.value.previousPackageManager,
              !.newContent =
                IF WritesEnvFile(c)
                THEN Bytes(NormalizeLineEndings(content, patch.value.newContent), NoLeading)
                ELSE LET new == NormalizeManifest(content, patch.value.newContent)
                     IN Bytes(new.text, new.head)]

\* Lines 109-113: loadSpec has returned to setLocalPackageManager.
AfterLookup(c, lookup) ==
  LET path == IF lookup.envFilePath # Undefined THEN lookup.envFilePath ELSE lookup.target
      d == [c EXCEPT !.lookup = lookup, !.path = path,
                     !.currCwd = "", !.nextCwd = "", !.selection = NullSelection]
  IN
  IF lookup.type = "NoProject" THEN Prepare(d, EmptyContent)
  ELSE [d EXCEPT !.pc = "content", !.req = "open"]

\* The walk is over: loadSpec returns or throws, setLocalPackageManager
\* goes on.
EndOfWalk(c, penv) ==
  LET lookup == LoadSpecResult(c.selection, c.initialCwd, penv) IN
  IF lookup.type = "Error" THEN Throw(c, lookup.error)
  ELSE IF c.kind = "resolve" THEN Return(c, lookup, Undefined)
  ELSE AfterLookup(c, lookup)

\* Lines 162-169: the head of the while loop, up to the next readFile.
RECURSIVE Advance(_, _)
Advance(c, penv) ==
  IF c.nextCwd # c.currCwd /\ KeepWalking(c.selection) THEN
    LET d == [c EXCEPT !.currCwd = c.nextCwd, !.nextCwd = Dirname(c.nextCwd)] IN
    IF NodeModulesRegExpTest(d.currCwd) THEN Advance(d, penv)
    ELSE [d EXCEPT !.pc = "manifest", !.req = "open"]
  ELSE EndOfWalk(c, penv)

\* Lines 173-185: readFile(manifestPath) has failed with ENOENT (found
\* is FALSE) or returned content, which is parsed.
ManifestRead(f, penv, c, found, content) ==
  [fs |-> f,
   call |-> IF ~found THEN Advance(c, penv)
            ELSE IF ~IsObjectValue(content) THEN Throw(c, "InvalidManifest")
            ELSE [c EXCEPT !.pc = "env", !.req = "open", !.data = content.data]]

\* Lines 187-199: readFile(envFilePath) has failed with ENOENT (fromFile
\* is FALSE) or returned text, and the manifest is selected.  fromFile
\* records whether localEnv is the merged object (localEnv !== process.env)
\* or process.env itself.
EnvRead(f, penv, c, fromFile, text) ==
  LET manifestPath == Join(c.currCwd, ManifestName)
      envFilePath == Join(c.currCwd, EnvFileName)
      localEnv == IF fromFile THEN EnvMerge(penv, ParseEnv(text)) ELSE penv
  IN
  [fs |-> f,
   call |-> Advance([c EXCEPT !.data = NoData,
                              !.selection = Selection(c.data, manifestPath, localEnv,
                                                      fromFile, envFilePath)],
                    penv)]

\* The file emptied when its new content cannot be made.
ContentReadTruncating(f, penv, c, found, content) ==
  LET d == IF found THEN Prepare(c, content) ELSE Throw(c, "ENOENT") IN
  [fs |-> IF d.pc = "done"
          THEN WriteFile(f, c.path, IF WritesEnvFile(c) THEN "" ELSE EmptyContent)
          ELSE f,
   call |-> d]

\* Lines 112-137: readFile of the file to write has returned content (or
\* failed), and the file's new content is made.
ContentRead(f, penv, c, found, content) ==
  [fs |-> f, call |-> IF found THEN Prepare(c, content) ELSE Throw(c, "ENOENT")]

\* The file a call's readFile reads, and whether it is an override file
\* (a text) or a manifest.
ReadPath(c) ==
  CASE c.pc = "manifest" -> Join(c.currCwd, ManifestName)
    [] c.pc = "env" -> Join(c.currCwd, EnvFileName)
    [] c.pc = "content" -> c.path

ReadsEnvFile(c) == c.pc = "env" \/ (c.pc = "content" /\ WritesEnvFile(c))

\* The call goes on after its readFile has settled.
ReadFileSettled(f, penv, c, found, content) ==
  LET d == [c EXCEPT !.req = "none", !.size = 0, !.got = NoBytes] IN
  CASE c.pc = "manifest" -> ManifestRead(f, penv, d, found, content)
    [] c.pc = "env" -> EnvRead(f, penv, d, found, content)
    [] c.pc = "content" -> ContentRead(f, penv, d, found, content)

\* fs.promises.readFile, first request: the file is opened; readFile fails
\* with ENOENT when there is none.
OpenToRead(f, penv, c) ==
  IF Exists(f, ReadPath(c)) THEN [fs |-> f, call |-> [c EXCEPT !.req = "fstat"]]
  ELSE ReadFileSettled(f, penv, c, FALSE, "")

\* fs.promises.readFile, second request: the size of the file.
FstatFile(f, penv, c) ==
  LET cur == f[ReadPath(c)] IN
  [fs |-> f,
   call |-> [c EXCEPT !.req = "read",
                      !.size = IF ReadsEnvFile(c) THEN Len(cur) ELSE Len(cur.text)]]

\* fs.promises.readFile, third request: as many bytes as fstat gave are
\* read, and what the file holds of them is what readFile will return; for
\* a size of 0 the file is read to its end, in as many requests as give
\* bytes.  The file is closed next.
ReadData(f, penv, c) ==
  LET cur == f[ReadPath(c)]
      len == IF ReadsEnvFile(c) THEN Len(cur) ELSE Len(cur.text)
      n == IF c.size = 0 \/ c.size > len THEN len ELSE c.size
      got == IF ReadsEnvFile(c) THEN Bytes(SubSeq(cur, 1, n), NoLeading)
             ELSE Bytes(Prefix(cur, n).text, Prefix(cur, n).head)
  IN
  [fs |-> f,
   call |-> [c EXCEPT !.req = IF c.size = 0 /\ n > 0 THEN "more" ELSE "close",
                      !.got = got]]

\* fs.promises.readFile, a further request for a file read to its end: the
\* bytes past those read; the file is closed next when there are none.
ReadMore(f, penv, c) ==
  LET cur == f[ReadPath(c)]
      rest == RestAfter(IF ReadsEnvFile(c) THEN cur ELSE cur.text, c.got.text)
  IN
  [fs |-> f,
   call |-> IF rest = "" THEN [c EXCEPT !.req = "close"]
            ELSE [c EXCEPT !.got = Bytes(c.got.text \o rest, c.got.head)]]

\* fs.promises.readFile, last request: the file is closed, readFile returns
\* the bytes read and the call goes on with them.
CloseRead(f, penv, c) ==
  ReadFileSettled(f, penv, c, TRUE,
                  IF ReadsEnvFile(c) THEN c.got.text ELSE Content(c.got.text, c.got.head))

\* Line 138, first request: writeFile opens the file, which empties it.
OpenFile(f, penv, c) ==
  [fs |-> WriteFile(f, c.path, IF WritesEnvFile(c) THEN "" ELSE EmptyContent),
   call |-> [c EXCEPT !.pc = "write", !.wrote = {c.path}]]

\* Line 138, second request: writeFile writes newContent at the beginning
\* of the file, over what another call has written there since the file
\* was opened.  On a disk with no room left the request fails with ENOSPC
\* and writes nothing.  The file is closed next.
WriteData(f, penv, c) ==
  LET content ==
        IF WritesEnvFile(c)
        THEN c.newContent.text \o RestAfter(f[c.path], c.newContent.text)
        ELSE Overlay(c.newContent, f[c.path])
  IN
  IF full THEN [fs |-> f, call |-> [c EXCEPT !.pc = "close", !.error = "ENOSPC"]]
  ELSE [fs |-> WriteFile(f, c.path, content), call |-> [c EXCEPT !.pc = "close"]]

\* Line 138, last request: the file is closed; writeFile throws the error
\* of its write, or returns and the call returns (lines 140-142).
CloseFile(f, penv, c) ==
  [fs |-> f,
   call |-> IF c.error # "none" THEN Throw(c, c.error)
            ELSE Return(c, NoOutcome, c.previousPackageManager)]

\* The step a call in flight takes next.
StepOf(f, penv, c) ==
  CASE c.pc = "open" -> OpenFile(f, penv, c)
    [] c.pc = "write" -> WriteData(f, penv, c)
    [] c.pc = "close" -> CloseFile(f, penv, c)
    [] c.req = "open" -> OpenToRead(f, penv, c)
    [] c.req = "fstat" -> FstatFile(f, penv, c)
    [] c.req = "read" -> ReadData(f, penv, c)
    [] c.req = "more" -> ReadMore(f, penv, c)
    [] c.req = "close" -> CloseRead(f, penv, c)

\* A call starts: it runs up to the first request of its first readFile.
Begin(kind, f, penv, initialCwd, locator, isAlone) ==
  Advance([NoCall EXCEPT !.kind = kind, !.pc = "walk", !.locator = locator,
                         !.initialCwd = initialCwd, !.nextCwd = initialCwd,
                         !.disk = f, !.alone = isAlone],
          penv)

\* A call running from a disk to its end with no other call in flight.
RECURSIVE Run(_, _, _)
Run(f, penv, c) ==
  IF c.pc = "done" THEN [fs |-> f, call |-> c]
  ELSE LET s == StepOf(f, penv, c) IN Run(s.fs, penv, s.call)

\* loadSpec(initialCwd)
LoadSpec(f, penv, initialCwd) ==
  LET c == Run(f, penv, Begin("resolve", f, penv, initialCwd, NoLocator, TRUE)).call IN
  IF c.error # "none" THEN Thrown(c.error) ELSE c.lookup

\* setLocalPackageManager(cwd, info)
SetLocalPackageManager(f, penv, initialCwd, locator) ==
  LET r == Run(f, penv, Begin("persist", f, penv, initialCwd, locator, TRUE)) IN
  [ok |-> r.call.error = "none", error |-> r.call.error,
   previousPackageManager |-> r.call.previousPackageManager,
   fs |-> r.fs, written |-> r.call.wrote]

\* ------------------------------------------------------------- layouts

\* Bounds of the model: manifests on the disk, lines of an override file,
\* calls made one after the other in a run, calls made together in a run.
MaxManifests == 2
MaxLines == 2
MaxCalls == 1
MaxInFlight == 2

P == "/p"
NodeModules == Join(P, "node_modules")

\* dir and the directories above it.
RECURSIVE Ancestors(_)
Ancestors(dir) == IF dir = Root THEN {Root} ELSE {dir} \cup Ancestors(Dirname(dir))

\* The directories a process starts in: a project's subdirectory, a
\* directory of an installed package, a scoped installed package.
StartDirs ==
  {Join(P, "sub"),
   Join(Join(NodeModules, "pkg"), "lib"),
   Join(Join(NodeModules, "@s"), "pkg")}

Yarn == "yarn"
Npm == "npm"
Pnpm == "pnpm"
Foo == "foo"

Spec210 == "yarn@2.1.0"
Spec210Hash == "yarn@2.1.0+sha512.8dd9"

\* Manifests of the layouts that exercise the upward walk.
WalkManifests ==
  {Manifest("object", Data(Undefined, NoDevEngines), TRUE),
   Manifest("object", Data(Spec210, NoDevEngines), TRUE),
   Manifest("object", Data(Undefined, DevEngines(Yarn, "2.1.0")), FALSE),
   Manifest("invalid", NoData, TRUE),
   Manifest("array", NoData, TRUE)}

\* Manifests of the layouts that exercise the precedence policy.
PolicyManifests ==
  {Manifest("object", Data(Undefined, NoDevEngines), TRUE),
   Manifest("object", Data(Spec210, NoDevEngines), TRUE),
   Manifest("object", Data(Undefined, DevEngines(Yarn, "2.x")), TRUE),
   Manifest("object", Data(Undefined, DevEngines(Yarn, "2.1.0")), TRUE),
   Manifest("object", Data(Spec210Hash, DevEngines(Yarn, "2.x")), TRUE),
   Manifest("object", Data("npm@2.1.0", DevEngines(Yarn, "2.x")), TRUE),
   Manifest("object", Data("yarn@3.0.0", DevEngines(Yarn, "2.x")), TRUE),
   Manifest("object", Data(Yarn, DevEngines(Yarn, "2.x")), TRUE),
   Manifest("object", Data("foo@2.1.0", DevEngines(Foo, "2.x")), TRUE),
   Manifest("object", Data(Undefined, DevEngines(Pnpm, "2.1.0")), TRUE),
   Manifest("object", Data(Undefined, DevEngines(Yarn, Undefined)), TRUE),
   Manifest("object", Data(Undefined, DevEnginesArray), TRUE),
   Manifest("scalar", NoData, TRUE)}

YarnKey == LocalEnvKey(Yarn)

\* The lines an override file is made of.
LineKinds ==
  {"",
   "FOO=bar",
   YarnKey \o "=2.1.0",
   YarnKey \o "=3.0.0",
   YarnKey \o "="}

RECURSIVE JoinLines(_, _)
JoinLines(lines, eol) ==
  IF Len(lines) = 1 THEN lines[1]
  ELSE lines[1] \o eol \o JoinLines(Tail(lines), eol)

\* Every text of 1..MaxLines lines, with and without a trailing newline.
EnvTexts ==
  UNION {{JoinLines(ls, NL), JoinLines(ls, NL) \o NL} :
           ls \in UNION {[1..n -> LineKinds] : n \in 1..MaxLines}}

\* Override files with Windows line endings.
CrlfTexts ==
  {JoinLines(ls, CRLF) \o CRLF :
     ls \in {<<YarnKey \o "=2.1.0">>, <<"FOO=bar", YarnKey \o "=2.1.0">>}}

\* A process.env that defines override keys.
AmbientEnv ==
  {Binding(YarnKey, "2.4.3"), Binding(LocalEnvKey(Foo), "2.1.0"),
   Binding(LocalEnvKey(Pnpm), "2.1.0+sha512.8dd9")}

\* Override files beside any manifest, with that process.env or without.
AmbientTexts == {"FOO=bar\n", YarnKey \o "=2.1.0\n", YarnKey \o "=\n"}

\* The resolved package managers handed to persist.
Locators ==
  {Locator(Yarn, "2.4.3+sha512.8dd9"),
   Locator(Npm, "2.1.0")}

\* Up to MaxManifests manifests in the directories at and above the one
\* the process starts in, below the root; no override file; calls are made
\* one at a time.
WalkLayout ==
  /\ cwd \in StartDirs
  /\ \E S \in SUBSET (Ancestors(cwd) \ {Root}) :
       /\ Cardinality(S) <= MaxManifests
       /\ \E m \in [S -> WalkManifests] :
            fs = [p \in {Join(d, ManifestName) : d \in S} |-> m[Dirname(p)]]
  /\ full = FALSE
  /\ env = {}
  /\ limit = 1
  /\ budget = MaxCalls

\* A project directory and its subdirectory, each with a manifest: the
\* subdirectory's has no "packageManager" field, so that the walk from the
\* subdirectory goes on to the project's; an override file that defines the
\* key of yarn is beside one of them or both.
OverrideWalkLayout ==
  /\ \E closer \in {Manifest("object", Data(Undefined, NoDevEngines), TRUE),
                    Manifest("object", Data(Undefined, DevEngines(Yarn, "2.1.0")), FALSE)} :
     \E further \in {Manifest("object", Data(Undefined, NoDevEngines), TRUE),
                     Manifest("object", Data(Spec210, NoDevEngines), TRUE),
                     Manifest("object", Data(Undefined, DevEngines(Yarn, "2.x")), TRUE)} :
     \E D \in (SUBSET {Join(P, "sub"), P}) \ {{}} :
       fs = (Join(Join(P, "sub"), ManifestName) :> closer)
            @@ (Join(P, ManifestName) :> further)
            @@ [p \in {Join(d, EnvFileName) : d \in D} |-> YarnKey \o "=2.1.0\n"]
  /\ full = FALSE
  /\ env = {}
  /\ cwd = Join(P, "sub")
  /\ limit = 1
  /\ budget = MaxCalls

\* The manifests that resolve to yarn by themselves, the manager the lines
\* of the override files are about: the structured declaration names yarn
\* with a version, and the legacy field, if there is one, agrees with it.
YarnManifests ==
  {m \in PolicyManifests :
     /\ m.data.devEngines.kind = "object"
     /\ m.data.devEngines.name = Yarn
     /\ Truthy(m.data.devEngines.version)
     /\ Truthy(m.data.packageManager)
          => FromLegacyField(m.data.devEngines, m.data.packageManager).ok}

\* One project directory with a manifest and possibly an override file,
\* and a process.env that defines override keys or none; the process starts
\* in the project and makes one call at a time.
PolicyLayout ==
  /\ \E m \in PolicyManifests :
       \/ /\ env \in {{}, AmbientEnv}
          /\ fs = (Join(P, ManifestName) :> m)
       \/ /\ env \in {{}, AmbientEnv}
          /\ \E t \in AmbientTexts :
               fs = (Join(P, ManifestName) :> m) @@ (Join(P, EnvFileName) :> t)
       \/ /\ env = {}
          /\ m \in YarnManifests
          /\ \E t \in EnvTexts \cup CrlfTexts :
               fs = (Join(P, ManifestName) :> m) @@ (Join(P, EnvFileName) :> t)
  /\ full = FALSE
  /\ cwd = P
  /\ limit = 1
  /\ budget = MaxCalls

\* A project on a disk with no room left: a manifest that is written, or a
\* manifest with a structured declaration and an override file that is.
FullDiskLayout ==
  /\ \/ fs = (Join(P, ManifestName) :> Manifest("object", Data(Spec210, NoDevEngines), TRUE))
     \/ \E t \in AmbientTexts :
          fs = (Join(P, ManifestName) :>
                  Manifest("object", Data(Undefined, DevEngines(Yarn, "2.x")), TRUE))
               @@ (Join(P, EnvFileName) :> t)
  /\ full = TRUE
  /\ env = {}
  /\ cwd = P
  /\ limit = 1
  /\ budget = MaxCalls

\* The environment variable naming an alternate override file, and the
\* alternate name the project is configured with.
EnvFileVar == "COREPACK_ENV_FILE"
OtherEnvFileName == ".other.env"

\* The six texts of the alternate override file, for a value of the key.
OtherEnvTexts(value) ==
  LET line == YarnKey \o Eq \o value IN
  {line \o NL,
   NL \o line \o NL,
   line,
   NL \o line,
   "FOO=bar\n" \o line \o NL,
   "FOO=bar\n" \o line}

\* A project configured to use ".other.env": the manifest has a structured
\* declaration, the alternate file defines the override key, the default
\* file may exist beside it, and process.env names the alternate file.
OtherEnvLayout ==
  /\ \E version \in {"2.x", "2.1.0"} :
     \E value \in {"2.1.0", "2.1.0+sha512.8dd9"} :
     \E t \in OtherEnvTexts(value) :
       LET project == (Join(P, ManifestName) :>
                         Manifest("object", Data(Undefined, DevEngines(Yarn, version)), TRUE))
                      @@ (Join(P, OtherEnvFileName) :> t)
       IN
       \/ fs = project
       \/ fs = project @@ (Join(P, EnvFileName) :> "FOO=bar\n")
  /\ full = FALSE
  /\ env = {Binding(EnvFileVar, OtherEnvFileName)}
  /\ cwd = P
  /\ limit = 1
  /\ budget = MaxCalls

\* A project whose callers do not wait for one call to end before they
\* make the next: MaxInFlight calls are made and may be in flight together.
RaceLayout ==
  /\ \/ fs = (Join(P, ManifestName) :> Manifest("object", Data(Spec210, NoDevEngines), TRUE))
     \/ fs = (Join(P, ManifestName) :>
                Manifest("object", Data(Undefined, DevEngines(Yarn, "2.x")), TRUE))
             @@ (Join(P, EnvFileName) :> YarnKey \o "=2.1.0\n")
  /\ full = FALSE
  /\ env = {}
  /\ cwd = P
  /\ limit = MaxInFlight
  /\ budget = MaxInFlight

\* ------------------------------------------------------------- actions
\* fs is the disk, full whether it has no room left for the bytes of a
\* write, env is process.env, cwd the directory the process runs in,
\* budget the number of calls its callers make, limit the number they keep
\* in flight, started the number of calls made so far, calls the bag of
\* the calls in flight.  op, info, result, before, after, written and
\* alone describe the last call that ended:
\* which operation, its locator, what it returned or threw, the disk when
\* it started and when it ended, the paths it wrote, and whether it ran
\* with no other call in flight.

InFlight == BagToSet(calls)

NoResult ==
  [type |-> "None", target |-> Undefined, spec |-> NoDescriptor,
   envFilePath |-> Undefined, error |-> "none", previousPackageManager |-> Undefined]

\* What a call that ended returned or threw.
ResultOf(c) ==
  IF c.error # "none" THEN [NoResult EXCEPT !.type = "Error", !.error = c.error]
  ELSE IF c.kind = "resolve"
  THEN [type |-> c.lookup.type, target |-> c.lookup.target, spec |-> c.lookup.spec,
        envFilePath |-> c.lookup.envFilePath, error |-> "none",
        previousPackageManager |-> Undefined]
  ELSE [NoResult EXCEPT !.type = "Saved",
                        !.previousPackageManager = c.previousPackageManager]

Init ==
  /\ \/ PolicyLayout
     \/ WalkLayout
     \/ OverrideWalkLayout
     \/ FullDiskLayout
     \/ OtherEnvLayout
     \/ RaceLayout
  /\ started = 0
  /\ calls = EmptyBag
  /\ op = "none"
  /\ info = NoLocator
  /\ result = NoResult
  /\ before = fs
  /\ after = fs
  /\ written = {}
  /\ alone = TRUE

\* The step s of a call takes effect; others are the other calls in
\* flight.  A call that has ended is no longer in flight.
Settle(s, others) ==
  /\ fs' = s.fs
  /\ IF s.call.pc = "done"
     THEN /\ calls' = others
          /\ op' = s.call.kind
          /\ info' = s.call.locator
          /\ result' = ResultOf(s.call)
          /\ before' = s.call.disk
          /\ after' = s.fs
          /\ written' = s.call.wrote
          /\ alone' = s.call.alone
     ELSE /\ calls' = others (+) SetToBag({s.call})
          /\ UNCHANGED <<op, info, result, before, after, written, alone>>
  /\ UNCHANGED <<full, env, cwd, limit, budget>>

\* The calls in flight but c.
Others(c) == calls (-) SetToBag({c})

NotAlone(c) == [c EXCEPT !.alone = FALSE]

\* A call is made; the calls in flight are no longer alone.
Launch(kind, locator) ==
  \E c \in {Begin(kind, fs, env, cwd, locator, InFlight = {})} :
    Settle([fs |-> fs, call |-> c], BagOfAll(NotAlone, calls))

\* loadSpec(cwd) is called.
StartResolve ==
  /\ started < budget
  /\ BagCardinality(calls) < limit
  /\ started' = started + 1
  /\ Launch("resolve", NoLocator)

\* setLocalPackageManager(cwd, {locator}) is called.
StartPersist(locator) ==
  /\ started < budget
  /\ BagCardinality(calls) < limit
  /\ started' = started + 1
  /\ Launch("persist", locator)

Reading(c) == c.pc \in {"manifest", "env", "content"}

\* readFile of a call in flight: the file is opened; when there is none
\* readFile fails with ENOENT and the call runs on.
ReadFileOpen ==
  \E c \in InFlight :
    /\ Reading(c) /\ c.req = "open"
    /\ \E s \in {OpenToRead(fs, env, c)} : Settle(s, Others(c))
    /\ UNCHANGED started

\* readFile of a call in flight: the file's size is taken.
ReadFileFstat ==
  \E c \in InFlight :
    /\ Reading(c) /\ c.req = "fstat"
    /\ \E s \in {FstatFile(fs, env, c)} : Settle(s, Others(c))
    /\ UNCHANGED started

\* readFile of a call in flight: the file's bytes are read.
ReadFileRead ==
  \E c \in InFlight :
    /\ Reading(c) /\ c.req = "read"
    /\ \E s \in {ReadData(fs, env, c)} : Settle(s, Others(c))
    /\ UNCHANGED started

\* readFile of a call in flight: the file is read on, to its end.
ReadFileMore ==
  \E c \in InFlight :
    /\ Reading(c) /\ c.req = "more"
    /\ \E s \in {ReadMore(fs, env, c)} : Settle(s, Others(c))
    /\ UNCHANGED started

\* readFile of a call in flight: the file is closed, and the call runs on
\* to its next file request or to its end.
ReadFileClose ==
  \E c \in InFlight :
    /\ Reading(c) /\ c.req = "close"
    /\ \E s \in {CloseRead(fs, env, c)} : Settle(s, Others(c))
    /\ UNCHANGED started

\* writeFile of a persist call in flight: the file is opened.
WriteFileOpen ==
  \E c \in InFlight :
    /\ c.pc = "open"
    /\ \E s \in {OpenFile(fs, env, c)} : Settle(s, Others(c))
    /\ UNCHANGED started

\* writeFile of a persist call in flight: the file is written.
WriteFileWrite ==
  \E c \in InFlight :
    /\ c.pc = "write"
    /\ \E s \in {WriteData(fs, env, c)} : Settle(s, Others(c))
    /\ UNCHANGED started

\* writeFile of a persist call in flight: the file is closed, and the call
\* returns or throws.
WriteFileClose ==
  \E c \in InFlight :
    /\ c.pc = "close"
    /\ \E s \in {CloseFile(fs, env, c)} : Settle(s, Others(c))
    /\ UNCHANGED started

Next ==
  \/ StartResolve
  \/ \E locator \in Locators : StartPersist(locator)
  \/ ReadFileOpen
  \/ ReadFileFstat
  \/ ReadFileRead
  \/ ReadFileMore
  \/ ReadFileClose
  \/ WriteFileOpen
  \/ WriteFileWrite
  \/ WriteFileClose

Spec == Init /\ [][Next]_vars

\* ------------------------------------------------------------- claims

\* The claims are about a call that ran with no other call in flight, in
\* the state it ends in and until the next call is made: the disk it
\* started from is before, the disk it left is after.

\* The resolution the last persist call started from.
LastLookup == LoadSpec(before, env, cwd)

PersistSaved == op = "persist" /\ alone /\ InFlight = {} /\ result.type = "Saved"
PersistFailed == op = "persist" /\ alone /\ InFlight = {} /\ result.type = "Error"
Resolved == op = "resolve" /\ alone /\ InFlight = {}

HasSegment(p, seg) == \E i \in 1..Len(Split(p, Sep)) : Split(p, Sep)[i] = seg

\* A package root directly under node_modules: .../node_modules/<pkg> or
\* .../node_modules/@scope/<pkg>.
IsPackageRoot(d) ==
  LET parent == Dirname(d)
      name == SliceFrom(d, LastIndexOf(d, Sep) + 1)
      parentName == SliceFrom(parent, LastIndexOf(parent, Sep) + 1)
      grandParentName == SliceFrom(Dirname(parent), LastIndexOf(Dirname(parent), Sep) + 1)
  IN
  /\ name # "" /\ ~StartsWith(name, "@")
  /\ \/ parentName = "node_modules"
     \/ StartsWith(parentName, "@") /\ grandParentName = "node_modules"

Longest(S) == CHOOSE d \in S : \A e \in S : Len(e) <= Len(d)
Shortest(S) == CHOOSE d \in S : \A e \in S : Len(d) <= Len(e)

HasManifest(f, d) == Exists(f, Join(d, ManifestName))
LegacyField(f, d) == f[Join(d, ManifestName)].data.packageManager

\* The directories whose manifest the walk from dir reads.
Candidates(f, dir) == {d \in Ancestors(dir) : ~IsPackageRoot(d) /\ HasManifest(f, d)}

\* The manifest the walk from dir adopts: the closest one that has a
\* "packageManager" field; when none has, the last one met on the way up;
\* when there is no manifest, package.json in dir.
AdoptedManifest(f, dir) ==
  LET cands == Candidates(f, dir)
      withField == {d \in cands : Truthy(LegacyField(f, d))}
  IN
  IF cands = {} THEN Join(dir, ManifestName)
  ELSE IF withField # {} THEN Join(Longest(withField), ManifestName)
  ELSE Join(Shortest(cands), ManifestName)

\* The closest manifest at or above dir in a directory without a
\* node_modules segment.
NearestDirs(f, dir) ==
  {d \in Ancestors(dir) : ~HasSegment(d, "node_modules") /\ HasManifest(f, d)}
NearestManifest(f, dir) == Join(Longest(NearestDirs(f, dir)), ManifestName)

EnvFileBeside(manifestPath) == Join(Dirname(manifestPath), EnvFileName)

OnlyWritten(path) ==
  /\ written = {path}
  /\ DOMAIN after \ {path} = DOMAIN before \ {path}
  /\ \A q \in DOMAIN before \ {path} : after[q] = before[q]

\* The override file beside the manifest defines a value for the key of
\* the manifest's structured declaration.
Contributed(f, manifestPath) ==
  LET dev == f[manifestPath].data.devEngines
      path == EnvFileBeside(manifestPath)
  IN
  /\ dev.kind = "object"
  /\ Exists(f, path)
  /\ Truthy(EnvGet(ParseEnv(f[path]), LocalEnvKey(dev.name)))

\* C1: when persist patches the override file that contributed, only the value of the line
\* of the override key changes: same number of lines, every other line as it
\* was, trailing newline as it was.
C1_PatchKeepsEveryOtherLine ==
  (/\ PersistSaved
   /\ LastLookup.envFilePath # Undefined
   /\ Contributed(before, LastLookup.target)) =>
    LET path == LastLookup.envFilePath
        key == LocalEnvKey(LastLookup.spec.name)
        old == SplitLines(before[path])
        new == SplitLines(after[path])
    IN
    /\ Len(new) = Len(old)
    /\ \E k \in 1..Len(old) :
         /\ IsAssignment(old[k])
         /\ LineKey(old[k]) = key
         /\ new[k] = key \o Eq \o info.reference
         /\ \A j \in (1..Len(old)) \ {k} : new[j] = old[j]

\* The structured declaration of the manifest the last persist adopted.
LastDevEngines ==
  IF LastLookup.type \in {"Found", "NoSpec"}
  THEN before[LastLookup.target].data.devEngines
  ELSE NoDevEngines

\* C2: after a persist that completed, with a version that satisfies the
\* structured constraint when one is declared, resolve from the same
\* directory returns Found with the persisted name and version.
C2_PersistThenResolveRoundTrips ==
  (/\ PersistSaved
   /\ (LastDevEngines.kind = "object" /\ Truthy(LastDevEngines.version))
        => SemverSatisfies(info.reference, LastDevEngines.version))
  => LET r == LoadSpec(after, env, cwd) IN
     r.type = "Found" /\ r.spec = Descriptor(info.name, info.reference)

\* C3 as stated: a persist writes exactly one file, the nearest manifest or
\* the override file beside it, and leaves every other file unchanged.
C3_WritesNearestManifest ==
  (PersistSaved /\ NearestDirs(before, cwd) # {}) =>
    \E p \in {NearestManifest(before, cwd), EnvFileBeside(NearestManifest(before, cwd))} :
      OnlyWritten(p)

\* C3 amended: a persist that completes writes exactly one file, the
\* manifest the walk adopts or the override file beside it, and leaves
\* every other file unchanged.
C3_WritesAdoptedManifest ==
  PersistSaved =>
    \E p \in {AdoptedManifest(before, cwd), EnvFileBeside(AdoptedManifest(before, cwd))} :
      OnlyWritten(p)

\* A persist walked past a closer manifest that has an override file
\* beside it, and wrote the override file beside the manifest further up.
C3_Witness ==
  /\ PersistSaved
  /\ NearestDirs(before, cwd) # {}
  /\ AdoptedManifest(before, cwd) # NearestManifest(before, cwd)
  /\ written = {EnvFileBeside(AdoptedManifest(before, cwd))}
  /\ after[AdoptedManifest(before, cwd)] = before[AdoptedManifest(before, cwd)]
  /\ after[NearestManifest(before, cwd)] = before[NearestManifest(before, cwd)]
  /\ Exists(before, EnvFileBeside(NearestManifest(before, cwd)))
  /\ after[EnvFileBeside(NearestManifest(before, cwd))]
       = before[EnvFileBeside(NearestManifest(before, cwd))]

\* C4: Found carries the override file's path only when that file
\* contributed the version; otherwise persist patches the manifest.
C4_OverridePathOnlyWhenContributed ==
  /\ (Resolved /\ result.type = "Found" /\ result.envFilePath # Undefined)
       => Contributed(after, result.target)
  /\ (PersistSaved /\ LastLookup.type = "Found" /\ ~Contributed(before, LastLookup.target))
       => written = {LastLookup.target}

\* The walk from dir completes and adopts a manifest.
Adopts(f, dir) ==
  /\ Candidates(f, dir) # {}
  /\ \A d \in Candidates(f, dir) :
       Len(d) >= Len(Dirname(AdoptedManifest(f, dir)))
         => f[Join(d, ManifestName)].valid = "object"

AdoptedData(f, dir) == f[AdoptedManifest(f, dir)].data

\* The adopted manifest has a structured declaration {name, version}.
Structured(f, dir) ==
  /\ Adopts(f, dir)
  /\ AdoptedData(f, dir).devEngines.kind = "object"
  /\ Truthy(AdoptedData(f, dir).devEngines.version)

\* The override file of the adopted manifest's directory merged over the
\* ambient environment.
MergedEnv(f, dir) ==
  LET path == EnvFileBeside(AdoptedManifest(f, dir)) IN
  IF Exists(f, path) THEN EnvMerge(env, ParseEnv(f[path])) ELSE env

\* The value the merged environment gives the override key.
OverrideValue(f, dir) ==
  EnvGet(MergedEnv(f, dir), LocalEnvKey(AdoptedData(f, dir).devEngines.name))

Failure(e) == result.type = "Error" /\ result.error = e

\* C5 as stated: with a structured declaration and the override key
\* defined, resolve returns Found(name, override value) when the value
\* satisfies the constraint and fails with OverrideConstraintMismatch when
\* it does not.
C5_OverrideDecides ==
  (Resolved /\ Structured(after, cwd) /\ OverrideValue(after, cwd) # Undefined) =>
    LET dev == AdoptedData(after, cwd).devEngines
        v == OverrideValue(after, cwd)
    IN
    IF SemverSatisfies(v, dev.version)
    THEN result.type = "Found" /\ result.spec = Descriptor(dev.name, v)
    ELSE Failure("OverrideConstraintMismatch")

\* C5 amended: with a structured declaration and a non-empty value of the
\* override key, resolve fails with OverrideConstraintMismatch when the
\* value does not satisfy the constraint; when it does, resolve returns
\* Found(name, override value) if the name is a supported manager and fails
\* if it is not.
C5_NonEmptyOverrideDecides ==
  (Resolved /\ Structured(after, cwd) /\ Truthy(OverrideValue(after, cwd))) =>
    LET dev == AdoptedData(after, cwd).devEngines
        v == OverrideValue(after, cwd)
    IN
    IF ~SemverSatisfies(v, dev.version) THEN Failure("OverrideConstraintMismatch")
    ELSE IF IsSupportedPackageManager(dev.name)
    THEN result.type = "Found" /\ result.spec = Descriptor(dev.name, v)
    ELSE result.type = "Error"

\* The override value won over a legacy field that says something else.
C5_Witness ==
  /\ Resolved
  /\ Structured(after, cwd)
  /\ Truthy(OverrideValue(after, cwd))
  /\ Truthy(AdoptedData(after, cwd).packageManager)
  /\ result.type = "Found"
  /\ result.spec.name \o At \o result.spec.range # AdoptedData(after, cwd).packageManager
  /\ result.spec.range = OverrideValue(after, cwd)

\* C6: a structured declaration alone (no legacy field, no override value)
\* resolves to Found(name, constraint).
C6_StructuredAloneResolves ==
  (/\ Resolved
   /\ Structured(after, cwd)
   /\ AdoptedData(after, cwd).packageManager = Undefined
   /\ OverrideValue(after, cwd) = Undefined)
  => LET dev == AdoptedData(after, cwd).devEngines IN
     result.type = "Found" /\ result.spec = Descriptor(dev.name, dev.version)

\* The name and the version of a legacy field name@version.
LegacyName(pm) == IF IndexOf(pm, At) = -1 THEN pm ELSE Slice(pm, 0, IndexOf(pm, At))
LegacyVersion(pm) == IF IndexOf(pm, At) = -1 THEN "" ELSE SliceFrom(pm, IndexOf(pm, At) + 1)

\* C7 as stated: with a structured declaration, a legacy field and no
\* override value, resolve fails with DeclarationNameMismatch or
\* DeclarationVersionMismatch, or returns the legacy field verbatim.
C7_LegacyFieldVerbatim ==
  (/\ Resolved
   /\ Structured(after, cwd)
   /\ Truthy(AdoptedData(after, cwd).packageManager)
   /\ OverrideValue(after, cwd) = Undefined)
  => LET dev == AdoptedData(after, cwd).devEngines
         pm == AdoptedData(after, cwd).packageManager
     IN
     IF LegacyName(pm) # dev.name THEN Failure("DeclarationNameMismatch")
     ELSE IF ~SemverSatisfies(LegacyVersion(pm), dev.version)
     THEN Failure("DeclarationVersionMismatch")
     ELSE /\ result.type = "Found"
          /\ result.spec.name \o At \o result.spec.range = pm

\* C7 amended: with a structured declaration, a legacy field and no
\* non-empty override value, resolve fails with DeclarationNameMismatch
\* when the legacy field does not begin with the declared name and "@"
\* (another manager, or the bare name); else it fails with
\* DeclarationVersionMismatch when what follows the "@" does not satisfy
\* the constraint; else it returns the legacy field verbatim when the name
\* is a supported manager and fails when it is not.
C7_SupportedLegacyFieldVerbatim ==
  (/\ Resolved
   /\ Structured(after, cwd)
   /\ Truthy(AdoptedData(after, cwd).packageManager)
   /\ ~Truthy(OverrideValue(after, cwd)))
  => LET dev == AdoptedData(after, cwd).devEngines
         pm == AdoptedData(after, cwd).packageManager
     IN
     IF ~StartsWith(pm, dev.name \o At) THEN Failure("DeclarationNameMismatch")
     ELSE IF ~SemverSatisfies(SliceFrom(pm, Len(dev.name) + 1), dev.version)
     THEN Failure("DeclarationVersionMismatch")
     ELSE IF IsSupportedPackageManager(dev.name)
     THEN /\ result.type = "Found"
          /\ result.spec.name \o At \o result.spec.range = pm
     ELSE result.type = "Error"

\* A legacy field with a build suffix was returned with its suffix.
C7_Witness ==
  /\ Resolved
  /\ Structured(after, cwd)
  /\ ~Truthy(OverrideValue(after, cwd))
  /\ AdoptedData(after, cwd).packageManager = Spec210Hash
  /\ result.type = "Found"
  /\ result.spec = Descriptor(Yarn, "2.1.0+sha512.8dd9")

WriteFailed == result.error = "ENOSPC"

C9_NoNodeModulesSegment ==
  (Resolved /\ result.type \in {"Found", "NoSpec"})
    => ~HasSegment(result.target, "node_modules")

\* C10: persist returns what it overwrote: the legacy field's prior string
\* or "unknown" for the manifest, the prior value of the override key for
\* the override file that contributed it.
C10_ReturnsPreviousValue ==
  (PersistSaved /\ (LastLookup.envFilePath # Undefined => Contributed(before, LastLookup.target))) =>
    result.previousPackageManager =
      IF LastLookup.envFilePath # Undefined
      THEN EnvGet(ParseEnv(before[LastLookup.envFilePath]), LocalEnvKey(LastLookup.spec.name))
      ELSE IF LastLookup.type = "NoProject" THEN Unknown
      ELSE IF before[LastLookup.target].data.packageManager # Undefined
      THEN before[LastLookup.target].data.packageManager
      ELSE Unknown

\* The name of the override file the process is configured with: the one
\* COREPACK_ENV_FILE gives, else the default.
ConfiguredEnvFileName ==
  IF Truthy(EnvGet(env, EnvFileVar)) THEN EnvGet(env, EnvFileVar)
  ELSE EnvFileName

ConfiguredEnvFile(manifestPath) ==
  Join(Dirname(manifestPath), ConfiguredEnvFileName)

\* COREPACK_ENV_FILE is set, the walk from dir adopts a manifest with a
\* structured declaration of a supported manager, and the alternate file
\* beside that manifest defines the override key with a value that
\* satisfies the constraint.
AlternateDecides(f, dir) ==
  /\ Truthy(EnvGet(env, EnvFileVar))
  /\ Structured(f, dir)
  /\ LET dev == AdoptedData(f, dir).devEngines
         path == ConfiguredEnvFile(AdoptedManifest(f, dir))
     IN
     /\ IsSupportedPackageManager(dev.name)
     /\ Exists(f, path)
     /\ Truthy(EnvGet(ParseEnv(f[path]), LocalEnvKey(dev.name)))
     /\ SemverSatisfies(EnvGet(ParseEnv(f[path]), LocalEnvKey(dev.name)), dev.version)

\* C11: when COREPACK_ENV_FILE names an alternate override file, resolve
\* and persist use that file in the manifest's directory instead of
\* .corepack.env: an override key it defines is the version resolve returns
\* and the line persist rewrites.
C11_AlternateFileIsUsed ==
  /\ (Resolved /\ AlternateDecides(after, cwd)) =>
       LET dev == AdoptedData(after, cwd).devEngines
           path == ConfiguredEnvFile(AdoptedManifest(after, cwd))
       IN
       /\ result.type = "Found"
       /\ result.spec = Descriptor(dev.name, EnvGet(ParseEnv(after[path]), LocalEnvKey(dev.name)))
       /\ result.envFilePath = path
  /\ (op = "persist" /\ alone /\ AlternateDecides(before, cwd)) =>
       LET dev == AdoptedData(before, cwd).devEngines
           path == ConfiguredEnvFile(AdoptedManifest(before, cwd))
       IN
       /\ result.type = "Saved"
       /\ written = {path}
       /\ EnvGet(ParseEnv(after[path]), LocalEnvKey(dev.name)) = info.reference

\* The walk from dir reads the manifest of d: d is outside node_modules
\* package roots, has a manifest, and no manifest closer to dir has a
\* "packageManager" field.
WalkReaches(f, dir, d) ==
  /\ d \in Candidates(f, dir)
  /\ \A e \in Candidates(f, dir) : Len(e) > Len(d) => ~Truthy(LegacyField(f, e))

\* C12: when the walk reaches a manifest that is not a JSON object (invalid
\* JSON, or a JSON value that is no object), resolve fails with
\* InvalidManifest: the manifest is neither skipped nor adopted.
C12_NonObjectManifestFails ==
  (/\ Resolved
   /\ \E d \in Ancestors(cwd) :
        WalkReaches(after, cwd, d) /\ after[Join(d, ManifestName)].valid # "object")
  => Failure("InvalidManifest")

\* C13: persist is idempotent on the file it writes: after a persist that
\* succeeded with a manager the project's declaration admits, in a project
\* whose override file (if it has one) contributed the version, the same
\* persist again succeeds and leaves the file it wrote as it is.
C13_PersistIsIdempotent ==
  (/\ PersistSaved
   /\ LastLookup.type # "NoProject"
        => (Exists(before, EnvFileBeside(LastLookup.target))
              => Contributed(before, LastLookup.target))
   /\ (LastDevEngines.kind = "object" /\ Truthy(LastDevEngines.version))
        => /\ info.name = LastDevEngines.name
           /\ SemverSatisfies(info.reference, LastDevEngines.version))
  => LET again == SetLocalPackageManager(after, env, cwd, info) IN
     /\ again.ok
     /\ \A p \in written : again.fs[p] = after[p]

====
